---- MODULE Spec2Model ----
(***************************************************************************)
(* Model of backend/extract_server.py: the text normaliser, the recipe     *)
(* extractor (JSON-LD pass and DOM heuristics), the SQLite persistence     *)
(* layer and the POST /extract handler.                                    *)
(*                                                                         *)
(* Text is a sequence of one-character strings, so that trimming,          *)
(* whitespace collapsing and lowercasing are computed, not assumed.        *)
(***************************************************************************)
EXTENDS Integers, Sequences, FiniteSets, TLC

VARIABLES
    items,        \* _unique_preserve_order: the argument of the call
    unique,       \* _unique_preserve_order: the list returned
    called,       \* whether the call was made
    users,        \* table users: rows [id, username]
    recipes,      \* table recipes: rows
    recipe_tags,  \* table recipe_tags: rows [recipe_id, tag]
    clock,        \* CURRENT_TIMESTAMP of the database
    page,         \* do_POST: what the fetch of the last request returned
    extracted,    \* do_POST: the dict extract_recipe returned, if it returned
    response,     \* the last HTTP response written
    budget,       \* requests the clients still send
    corpus,       \* the documents the network serves
    bodies        \* the request bodies the clients send

normVars == <<items, unique, called>>

dbVars == <<users, recipes, recipe_tags, clock>>

envVars == <<corpus, bodies>>

vars == <<items, unique, called, users, recipes, recipe_tags, clock,
          page, extracted, response, budget, corpus, bodies>>

-----------------------------------------------------------------------------
(* Characters: str.split() / str.strip() whitespace and str.lower(). *)
Whitespace == {" ", "\t", "\n"}

LowerOf ==
    [A |-> "a", B |-> "b", C |-> "c", D |-> "d", E |-> "e", F |-> "f", G |-> "g",
     H |-> "h", I |-> "i", J |-> "j", K |-> "k", L |-> "l", M |-> "m", N |-> "n",
     O |-> "o", P |-> "p", Q |-> "q", R |-> "r", S |-> "s", T |-> "t", U |-> "u",
     V |-> "v", W |-> "w", X |-> "x", Y |-> "y", Z |-> "z"]

LowerChar(c) == IF c \in DOMAIN LowerOf THEN LowerOf[c] ELSE c

(* str.lower() *)
Lower(s) == [i \in 1..Len(s) |-> LowerChar(s[i])]

(* str.split(): the maximal runs of non-whitespace characters, in order. *)
RECURSIVE SplitLoop(_, _, _)
SplitLoop(s, cur, acc) ==
    IF s = <<>>
    THEN IF cur = <<>> THEN acc ELSE Append(acc, cur)
    ELSE IF Head(s) \in Whitespace
         THEN SplitLoop(Tail(s), <<>>, IF cur = <<>> THEN acc ELSE Append(acc, cur))
         ELSE SplitLoop(Tail(s), Append(cur, Head(s)), acc)

Split(s) == SplitLoop(s, <<>>, <<>>)

(* sep.join(words) *)
RECURSIVE Join(_, _)
Join(words, sep) ==
    IF words = <<>> THEN <<>>
    ELSE IF Len(words) = 1 THEN Head(words)
    ELSE Head(words) \o sep \o Join(Tail(words), sep)

(* _normalize_space(text): ' '.join((text or '').split()) *)
normalize_space(text) == Join(Split(text), <<" ">>)

(* _unique_preserve_order(items): the loop over items with its seen set    *)
(* and its unique list.                                                    *)
RECURSIVE UniqueLoop(_, _, _)
UniqueLoop(its, seen, uniq) ==
    IF its = <<>> THEN uniq
    ELSE LET item == Head(its)
             norm == Lower(normalize_space(item))
         IN  IF norm = <<>> \/ norm \in seen
             THEN UniqueLoop(Tail(its), seen, uniq)
             ELSE UniqueLoop(Tail(its), seen \cup {norm},
                             Append(uniq, normalize_space(item)))

(* The loop with the lowercased key appended instead of the item's text. *)
RECURSIVE UniqueLoopLowered(_, _, _)
UniqueLoopLowered(its, seen, uniq) ==
    IF its = <<>> THEN uniq
    ELSE LET norm == Lower(normalize_space(Head(its)))
         IN  IF norm = <<>> \/ norm \in seen
             THEN UniqueLoopLowered(Tail(its), seen, uniq)
             ELSE UniqueLoopLowered(Tail(its), seen \cup {norm}, Append(uniq, norm))

unique_preserve_order_lowered(its) == UniqueLoopLowered(its, {}, <<>>)

unique_preserve_order(its) == UniqueLoop(its, {}, <<>>)

-----------------------------------------------------------------------------
(* String literals of the source, as character sequences. *)
s_ingredient == <<"i","n","g","r","e","d","i","e","n","t">>
s_comment == <<"c","o","m","m","e","n","t">>
s_review == <<"r","e","v","i","e","w">>
s_instruction == <<"i","n","s","t","r","u","c","t","i","o","n">>
s_direction == <<"d","i","r","e","c","t","i","o","n">>
s_step == <<"s","t","e","p">>
s_method == <<"m","e","t","h","o","d">>
s_preparation == <<"p","r","e","p","a","r","a","t","i","o","n">>
s_process == <<"p","r","o","c","e","s","s">>
s_logo == <<"l","o","g","o">>
s_icon == <<"i","c","o","n">>
s_avatar == <<"a","v","a","t","a","r">>
s_http == <<"h","t","t","p">>
s_data == <<"d","a","t","a",":">>
s_og_image == <<"o","g",":","i","m","a","g","e">>
s_h == <<"h">>
s_h1 == <<"h","1">>
s_h2 == <<"h","2">>
s_h3 == <<"h","3">>
s_h4 == <<"h","4">>
s_h5 == <<"h","5">>
s_h6 == <<"h","6">>
s_hr == <<"h","r">>
s_title == <<"t","i","t","l","e">>
s_li == <<"l","i">>
s_p == <<"p">>
s_ol == <<"o","l">>
s_ul == <<"u","l">>
s_div == <<"d","i","v">>
s_a == <<"a">>
s_img == <<"i","m","g">>
s_meta == <<"m","e","t","a">>

(* needle in hay (Python's substring test on str) *)
Contains(needle, hay) ==
    \E i \in 1..(Len(hay) - Len(needle) + 1) :
        SubSeq(hay, i, i + Len(needle) - 1) = needle

(* any(k in hay for k in keywords) *)
AnyIn(keywords, hay) == \E k \in keywords : Contains(k, hay)

(* str.startswith(prefix) *)
StartsWith(s, prefix) ==
    Len(s) >= Len(prefix) /\ SubSeq(s, 1, Len(prefix)) = prefix

(* str.strip() *)
RECURSIVE LStrip(_)
LStrip(s) ==
    IF s # <<>> /\ Head(s) \in Whitespace THEN LStrip(Tail(s)) ELSE s

RECURSIVE RStrip(_)
RStrip(s) ==
    IF s # <<>> /\ s[Len(s)] \in Whitespace
    THEN RStrip(SubSeq(s, 1, Len(s) - 1)) ELSE s

Strip(s) == RStrip(LStrip(s))

(* str.split(c) for a one-character separator c *)
RECURSIVE SplitOnLoop(_, _, _, _)
SplitOnLoop(s, c, cur, acc) ==
    IF s = <<>> THEN Append(acc, cur)
    ELSE IF Head(s) = c
         THEN SplitOnLoop(Tail(s), c, <<>>, Append(acc, cur))
         ELSE SplitOnLoop(Tail(s), c, Append(cur, Head(s)), acc)

SplitOn(s, c) == SplitOnLoop(s, c, <<>>, <<>>)

(* The set S of naturals as an ascending sequence. *)
RECURSIVE Ascending(_)
Ascending(S) ==
    IF S = {} THEN <<>>
    ELSE LET m == CHOOSE x \in S : \A y \in S : x <= y
         IN  <<m>> \o Ascending(S \ {m})

RECURSIVE Concat(_)
Concat(ss) == IF ss = <<>> THEN <<>> ELSE Head(ss) \o Concat(Tail(ss))

NonEmpty(ss) == SelectSeq(ss, LAMBDA x : x # <<>>)

(* The first of the lists that is not empty, <<>> when all are. *)
FirstNonEmpty(lists) ==
    LET k == {i \in 1..Len(lists) : lists[i] # <<>>}
    IN  IF k = {} THEN <<>> ELSE lists[CHOOSE i \in k : \A j \in k : i <= j]

-----------------------------------------------------------------------------
(* The parsed document (BeautifulSoup tree).                               *)
(*   doc.nodes   the element nodes in document order; each                 *)
(*               [name, attrs, parent, text]: tag name, attributes as a    *)
(*               sequence of <<name, value>> pairs with distinct names,    *)
(*               index of the parent element (0: the soup itself) and the  *)
(*               element's own text node;                                  *)
(*   doc.scripts the contents of the script elements whose type contains   *)
(*               "ld+json", in document order.                             *)

(* attr in tag.attrs *)
HasAttr(n, a) == \E k \in 1..Len(n.attrs) : n.attrs[k][1] = a

(* tag[attr] *)
AttrValue(n, a) == n.attrs[CHOOSE k \in 1..Len(n.attrs) : n.attrs[k][1] = a][2]

(* tag.get(attr) or '' *)
Attr(n, a) == IF HasAttr(n, a) THEN AttrValue(n, a) ELSE <<>>

(* ' '.join(tag.get('class', [])).lower(): the class attribute is a list   *)
(* of whitespace-separated tokens.                                         *)
Classes(n) == Lower(Join(Split(Attr(n, "class")), <<" ">>))

(* (tag.get('id') or '').lower() *)
Cid(n) == Lower(Attr(n, "id"))

RECURSIVE IsDescendant(_, _, _)
IsDescendant(nodes, j, i) ==
    LET p == nodes[j].parent
    IN  p # 0 /\ (p = i \/ IsDescendant(nodes, p, i))

(* soup.find_all(names): indices of the elements with one of the names,    *)
(* in document order.                                                      *)
FindAll(nodes, names) ==
    Ascending({i \in 1..Len(nodes) : nodes[i].name \in names})

(* tag.find_all(names): the descendants of element i with one of the names *)
FindAllUnder(nodes, i, names) ==
    Ascending({j \in 1..Len(nodes) :
                  nodes[j].name \in names /\ IsDescendant(nodes, j, i)})

(* tag.find_next_siblings() *)
NextSiblings(nodes, i) ==
    Ascending({j \in (i+1)..Len(nodes) : nodes[j].parent = nodes[i].parent})

(* tag.get_text(separator=sep, strip=True): the stripped, non-empty text   *)
(* nodes of the element and its descendants, joined by sep.                *)
GetText(nodes, i, sep) ==
    LET idx == Ascending({j \in 1..Len(nodes) : j = i \/ IsDescendant(nodes, j, i)})
        strs == [k \in 1..Len(idx) |-> Strip(nodes[idx[k]].text)]
    IN  Join(NonEmpty(strs), sep)

(* [get_text(' ', strip=True) of each element of idx, if non-empty] *)
TextsOf(nodes, idx) ==
    NonEmpty([k \in 1..Len(idx) |-> GetText(nodes, idx[k], <<" ">>)])

-----------------------------------------------------------------------------
(* The result dict of extract_recipe: a function whose domain is the set   *)
(* of keys present.                                                         *)
EmptyDict == [k \in {} |-> <<>>]

(* result[k] = v *)
Put(d, k, v) == [x \in DOMAIN d \cup {k} |-> IF x = k THEN v ELSE d[x]]

(* bool(result.get(k)): a missing key, '' and [] are falsy *)
Truthy(d, k) == k \in DOMAIN d /\ d[k] # <<>>

(* JSON values (members of a decoded ld+json entry, the tags of a request  *)
(* body): [t, s, l] with                                                   *)
(*   t = "absent": key missing or null; "str": s the text; "num": a        *)
(*   non-zero number; "list": l the items; "dict": a non-empty object, s   *)
(*   the text of its 'text' (steps) or 'url' (images) member, <<>> when    *)
(*   it has none.                                                          *)
(* The items of a list are [t, s] with t "str", "num" or "dict".           *)
JAbsent == [t |-> "absent", s |-> <<>>, l |-> <<>>]
JStr(x) == [t |-> "str", s |-> x, l |-> <<>>]
JNum == [t |-> "num", s |-> <<>>, l |-> <<>>]
JList(xs) == [t |-> "list", s |-> <<>>, l |-> xs]
JDict(x) == [t |-> "dict", s |-> x, l |-> <<>>]
LStr(x) == [t |-> "str", s |-> x]
LNum == [t |-> "num", s |-> <<>>]
LDict(x) == [t |-> "dict", s |-> x]

(* bool(entry.get(key)) *)
JTruthy(j) ==
    CASE j.t = "absent" -> FALSE
      [] j.t \in {"num", "dict"} -> TRUE
      [] j.t = "list" -> j.l # <<>>
      [] OTHER -> j.s # <<>>

-----------------------------------------------------------------------------
(* extract_recipe, lines 302-347: the structured-data (JSON-LD) pass.      *)
(* A script is [kind, entries]: kind "malformed" when json.loads raises    *)
(* (entries empty), "array" with the decoded list, "object" with the one   *)
(* decoded value.                                                          *)
(* An entry is [type, name, recipeIngredient, recipeInstructions, image];  *)
(* type is the value of '@type' ("scalar" for an entry that is no dict).   *)

(* entries = data if isinstance(data, list) else [data] *)
Entries(script) ==
    IF script.kind = "array" THEN script.entries ELSE <<script.entries[1]>>

(* The items a for-loop over entry['recipeIngredient'] visits: iterating a *)
(* str yields its characters.                                              *)
IngredientItems(ing) ==
    IF ing.t = "str" THEN [k \in 1..Len(ing.s) |-> LStr(<<ing.s[k]>>)] ELSE ing.l

(* i.strip() raises for an item that is no str; iterating a number raises. *)
IngredientRaises(ing) ==
    \/ ing.t \in {"num", "dict"}
    \/ LET its == IngredientItems(ing)
       IN  \E k \in 1..Len(its) : its[k].t # "str"

(* [i.strip() for i in entry['recipeIngredient'] if i.strip()] *)
IngredientLines(ing) ==
    LET its == IngredientItems(ing)
    IN  NonEmpty([k \in 1..Len(its) |-> Strip(its[k].s)])

(* lines 318-328: the steps list built from recipeInstructions *)
InstructionSteps(inst) ==
    CASE inst.t = "list" ->
           Concat([k \in 1..Len(inst.l) |->
                     LET step == inst.l[k]
                     IN  IF step.t = "dict" /\ step.s # <<>> THEN <<Strip(step.s)>>
                         ELSE IF step.t = "str" THEN <<Strip(step.s)>>
                         ELSE <<>>])
      [] inst.t = "str" ->
           LET lines == SplitOn(inst.s, "\n")
           IN  NonEmpty([k \in 1..Len(lines) |-> Strip(lines[k])])
      [] OTHER -> <<>>

(* lines 331-342: the image of a Recipe entry; <<>> when none is assigned  *)
(* by a branch that requires a truthy value.                               *)
ImageAssigned(img) ==
    CASE img.t = "dict" /\ img.s # <<>> -> TRUE
      [] img.t = "dict" -> FALSE
      [] img.t = "list" /\ img.l # <<>> ->
           \/ img.l[1].t = "str"
           \/ img.l[1].t = "dict" /\ img.l[1].s # <<>>
      [] img.t = "str" -> TRUE
      [] OTHER -> FALSE

ImageValue(img) == IF img.t = "list" THEN img.l[1].s ELSE img.s

(* lines 312-313 *)
AssignName(result, entry) ==
    IF ~Truthy(result, "title") /\ JTruthy(entry.name)
    THEN Put(result, "title", entry.name.s) ELSE result

(* lines 314-317 *)
AssignIngredients(result, ing) ==
    IF JTruthy(ing)
    THEN Put(result, "ingredients", unique_preserve_order(IngredientLines(ing)))
    ELSE result

(* lines 329-330 *)
AssignSteps(result, steps) ==
    IF steps # <<>> THEN Put(result, "steps", unique_preserve_order(steps)) ELSE result

(* lines 318-330 *)
AssignInstructions(result, inst) ==
    IF JTruthy(inst) THEN AssignSteps(result, InstructionSteps(inst)) ELSE result

(* lines 331-342 *)
AssignImage(result, img) ==
    IF ~Truthy(result, "image") /\ JTruthy(img) /\ ImageAssigned(img)
    THEN Put(result, "image", ImageValue(img)) ELSE result

(* lines 312-342: the body run for the Recipe entry; [result, raised] *)
ApplyRecipe(result, entry) ==
    IF JTruthy(entry.recipeIngredient) /\ IngredientRaises(entry.recipeIngredient)
    THEN [result |-> AssignName(result, entry), raised |-> TRUE]
    ELSE [result |->
             AssignImage(
               AssignInstructions(
                 AssignIngredients(AssignName(result, entry), entry.recipeIngredient),
                 entry.recipeInstructions),
               entry.image),
          raised |-> FALSE]

(* lines 310-343: the first dict entry whose @type is 'Recipe' is applied, *)
(* then break.                                                             *)
ScanEntries(result, entries) ==
    LET rec == {k \in 1..Len(entries) : entries[k].type = "Recipe"}
    IN  IF rec = {} THEN [result |-> result, raised |-> FALSE]
        ELSE ApplyRecipe(result, entries[Ascending(rec)[1]])

(* lines 303-347: the loop over the scripts inside the outer try; an       *)
(* exception other than the decode error leaves the loop through the       *)
(* outer except.                                                           *)
RECURSIVE ScanScripts(_, _)
(* lines 344-347 after the entries of one script: out is [result, raised] *)
AfterScript(out, later) ==
    IF out.raised THEN out.result
    ELSE IF Truthy(out.result, "ingredients") \/ Truthy(out.result, "steps")
         THEN out.result
         ELSE ScanScripts(later, out.result)

ScanScripts(scripts, result) ==
    IF scripts = <<>> THEN result
    ELSE IF Head(scripts).kind = "malformed"
         THEN ScanScripts(Tail(scripts), result)
         ELSE AfterScript(ScanEntries(result, Entries(Head(scripts))), Tail(scripts))

StructuredData(doc) == ScanScripts(doc.scripts, EmptyDict)

-----------------------------------------------------------------------------
(* lines 349-352: title fallback.  A Tag is truthy whatever its contents,  *)
(* so soup.find('h1') or soup.find('title') is the first h1 when there is  *)
(* one.                                                                    *)
TitleTag(nodes) ==
    LET h1 == FindAll(nodes, {s_h1})
        tt == FindAll(nodes, {s_title})
    IN  IF h1 # <<>> THEN h1[1] ELSE IF tt # <<>> THEN tt[1] ELSE 0

TitleChain(nodes, result) ==
    LET title_tag == TitleTag(nodes)
    IN  IF ~Truthy(result, "title") /\ title_tag # 0
        THEN Put(result, "title", GetText(nodes, title_tag, <<>>))
        ELSE result

(* lines 356-376: the marked-container scan *)
NoiseWords == {s_comment, s_review}

IngredientMarked(n) ==
    Contains(s_ingredient, Classes(n)) \/ Contains(s_ingredient, Cid(n))

IngredientContainers(nodes) ==
    LET marked == {i \in 1..Len(nodes) : IngredientMarked(nodes[i])}
    IN  Ascending({i \in marked :
            /\ ~\E j \in marked : IsDescendant(nodes, j, i)
            /\ ~AnyIn(NoiseWords, Classes(nodes[i]))
            /\ ~AnyIn(NoiseWords, Cid(nodes[i]))})

MarkedIngredients(nodes) ==
    LET cs == IngredientContainers(nodes)
    IN  Concat([k \in 1..Len(cs) |->
                  TextsOf(nodes, FindAllUnder(nodes, cs[k], {s_li, s_p}))])

(* lines 378-385: the ul/ol fallback *)
ListIngredients(nodes) ==
    LET ls == Ascending({i \in 1..Len(nodes) :
                  /\ nodes[i].name \in {s_ul, s_ol}
                  /\ Contains(s_ingredient, Classes(nodes[i]))})
    IN  Concat([k \in 1..Len(ls) |->
                  TextsOf(nodes, FindAllUnder(nodes, ls[k], {s_li}))])

(* lines 354-388 *)
DomIngredients(nodes) ==
    FirstNonEmpty(<<MarkedIngredients(nodes), ListIngredients(nodes)>>)

(* lines 387-388 *)
StoreIngredients(result, ingredients) ==
    IF ingredients # <<>>
    THEN Put(result, "ingredients", unique_preserve_order(ingredients))
    ELSE result

(* The chain without the guard of line 354: the heuristics always run. *)
IngredientChainUnguarded(nodes, result) ==
    StoreIngredients(result, DomIngredients(nodes))

IngredientChain(nodes, result) ==
    IF ~Truthy(result, "ingredients")
    THEN StoreIngredients(result, DomIngredients(nodes))
    ELSE result

(* lines 390-415: the heading-anchored step scan *)
StepHeadingWords ==
    {s_instruction, s_direction, s_step, s_method, s_preparation, s_process}

HeadingNames == {s_h1, s_h2, s_h3, s_h4, s_h5, s_h6}

(* lines 399-413: what one sibling contributes *)
SiblingSteps(nodes, sib) ==
    IF nodes[sib].name \in {s_ol, s_ul}
    THEN TextsOf(nodes, FindAllUnder(nodes, sib, {s_li}))
    ELSE IF nodes[sib].name = s_p
         THEN NonEmpty(<<GetText(nodes, sib, <<" ">>)>>)
         ELSE TextsOf(nodes, FindAllUnder(nodes, sib, {s_li, s_p}))

(* lines 397-398: if sib.name and sib.name.startswith('h'): break *)
EndsWalk(node) == node.name # <<>> /\ StartsWith(node.name, s_h)

(* lines 396-413: the walk over heading.find_next_siblings() *)
RECURSIVE WalkSiblings(_, _)
WalkSiblings(nodes, sibs) ==
    IF sibs = <<>> THEN <<>>
    ELSE IF EndsWalk(nodes[Head(sibs)]) THEN <<>>
         ELSE SiblingSteps(nodes, Head(sibs)) \o WalkSiblings(nodes, Tail(sibs))

MatchingHeadings(nodes) ==
    SelectSeq(FindAll(nodes, HeadingNames),
              LAMBDA h : AnyIn(StepHeadingWords, Lower(GetText(nodes, h, <<" ">>))))

HeadingSteps(nodes) ==
    LET hs == MatchingHeadings(nodes)
    IN  FirstNonEmpty([k \in 1..Len(hs) |->
                         WalkSiblings(nodes, NextSiblings(nodes, hs[k]))])

(* lines 417-432: the class/id step scan *)
StepClassWords == {s_instruction, s_direction, s_step}

StepContainers(nodes) ==
    Ascending({i \in 1..Len(nodes) :
        LET classes == Classes(nodes[i])
            cid == Cid(nodes[i])
        IN  /\ (AnyIn(StepClassWords, classes) \/ AnyIn(StepClassWords, cid))
            /\ ~AnyIn(NoiseWords, classes)
            /\ ~AnyIn(NoiseWords, cid)})

ClassSteps(nodes) ==
    LET cs == StepContainers(nodes)
    IN  Concat([k \in 1..Len(cs) |->
                  TextsOf(nodes, FindAllUnder(nodes, cs[k], {s_li, s_p}))])

(* lines 434-444: the first ol whose parent is not noise-tagged and that   *)
(* yields items; the parent of a top-level element is the soup, which has  *)
(* no class.                                                               *)
ParentClasses(nodes, i) ==
    IF nodes[i].parent = 0 THEN <<>> ELSE Classes(nodes[nodes[i].parent])

OlSteps(nodes) ==
    LET ols == SelectSeq(FindAll(nodes, {s_ol}),
                         LAMBDA o : ~AnyIn(NoiseWords, ParentClasses(nodes, o)))
    IN  FirstNonEmpty([k \in 1..Len(ols) |->
                         TextsOf(nodes, FindAllUnder(nodes, ols[k], {s_li}))])

(* lines 390-447 *)
DomSteps(nodes) ==
    FirstNonEmpty(<<HeadingSteps(nodes), ClassSteps(nodes), OlSteps(nodes)>>)

(* The chain without the normalisation of line 447. *)
(* lines 446-447 *)
StoreSteps(result, steps) ==
    IF steps # <<>> THEN Put(result, "steps", unique_preserve_order(steps)) ELSE result

StoreStepsRaw(result, steps) ==
    IF steps # <<>> THEN Put(result, "steps", steps) ELSE result

StepChainRaw(nodes, result) ==
    IF ~Truthy(result, "steps") THEN StoreStepsRaw(result, DomSteps(nodes)) ELSE result

StepChain(nodes, result) ==
    IF ~Truthy(result, "steps") THEN StoreSteps(result, DomSteps(nodes)) ELSE result

(* lines 449-452: og:image meta *)
OgMeta(nodes) ==
    LET byProp == Ascending({i \in 1..Len(nodes) :
                     nodes[i].name = s_meta /\ HasAttr(nodes[i], "property")
                     /\ AttrValue(nodes[i], "property") = s_og_image})
        byName == Ascending({i \in 1..Len(nodes) :
                     nodes[i].name = s_meta /\ HasAttr(nodes[i], "name")
                     /\ AttrValue(nodes[i], "name") = s_og_image})
    IN  IF byProp # <<>> THEN byProp[1]
        ELSE IF byName # <<>> THEN byName[1] ELSE 0

MetaImage(nodes, result) ==
    LET meta == OgMeta(nodes)
    IN  IF ~Truthy(result, "image") /\ meta # 0 /\ Attr(nodes[meta], "content") # <<>>
        THEN Put(result, "image", AttrValue(nodes[meta], "content"))
        ELSE result

(* lines 454-463: the first qualifying img *)
ImgCandidates(nodes) ==
    Ascending({i \in 1..Len(nodes) :
        /\ nodes[i].name = s_img /\ HasAttr(nodes[i], "src")
        /\ ~StartsWith(AttrValue(nodes[i], "src"), s_data)
        /\ ~AnyIn({s_logo, s_icon, s_avatar}, Lower(Attr(nodes[i], "alt")))})

ImgImage(nodes, result) ==
    LET imgs == ImgCandidates(nodes)
    IN  IF ~Truthy(result, "image") /\ imgs # <<>>
        THEN Put(result, "image", AttrValue(nodes[imgs[1]], "src"))
        ELSE result

ImageChain(nodes, result) == ImgImage(nodes, MetaImage(nodes, result))

(* lines 465-471 *)
Hrefs(nodes) ==
    LET as == Ascending({i \in 1..Len(nodes) :
                  /\ nodes[i].name = s_a /\ HasAttr(nodes[i], "href")
                  /\ StartsWith(AttrValue(nodes[i], "href"), s_http)})
    IN  [k \in 1..Len(as) |-> AttrValue(nodes[as[k]], "href")]

LinkChain(nodes, result) ==
    LET links == Hrefs(nodes)
    IN  IF links # <<>> THEN Put(result, "links", unique_preserve_order(links))
        ELSE result

(* extract_recipe on the parsed page, lines 299-473 *)
extract_recipe(doc) ==
    LinkChain(doc.nodes,
      ImageChain(doc.nodes,
        StepChain(doc.nodes,
          IngredientChain(doc.nodes,
            TitleChain(doc.nodes, StructuredData(doc))))))

-----------------------------------------------------------------------------
(* Persistence (SQLite).  An optional value (None or a value) is a         *)
(* sequence of length 0 or 1.                                              *)
DEFAULT_USER == <<"d","e","f","a","u","l","t">>

None == <<>>
Some(v) == <<v>>

(* d.get(k) *)
Get(d, k) == IF k \in DOMAIN d THEN Some(d[k]) ELSE None

(* d.get(k, []) *)
GetList(d, k) == IF k \in DOMAIN d THEN d[k] ELSE <<>>

(* json.dumps(value): the stored text, tagged as JSON *)
json_dumps(value) == [json |-> value]

(* _parse_json_list / _parse_json_dict: json.loads of the stored text *)
parse_json(text) == text.json

(* _normalize_tags(tags), lines 42-56 *)
normalize_tags(tags) ==
    LET lst == IF tags.t = "str" THEN <<LStr(tags.s)>>
               ELSE IF tags.t = "list" THEN tags.l ELSE <<>>
        strs == SelectSeq(lst, LAMBDA x : x.t = "str")
        cleaned == NonEmpty([k \in 1..Len(strs) |-> Lower(normalize_space(strs[k].s))])
    IN  unique_preserve_order(cleaned)

(* AUTOINCREMENT: the id of the next row inserted into a table *)
NextId(rows) ==
    IF rows = {} THEN 1
    ELSE 1 + (CHOOSE m \in {r.id : r \in rows} : \A r \in rows : r.id <= m)

(* _get_or_create_user, lines 106-112: [users, id, username] *)
get_or_create_user(us, username) ==
    LET given == IF username = <<>> THEN DEFAULT_USER ELSE username
        name == IF normalize_space(given) = <<>> THEN DEFAULT_USER
                ELSE normalize_space(given)
        us2 == IF \E u \in us : u.username = name THEN us
               ELSE us \cup {[id |-> NextId(us), username |-> name]}
        row == CHOOSE u \in us2 : u.username = name
    IN  [users |-> us2, id |-> row.id, username |-> row.username]

(* The statement without its ON CONFLICT clause and without the UNIQUE     *)
(* constraint: every save inserts a row.                                   *)
UpsertRecipeInsert(rs, user_id, source_url, ex, now) ==
    rs \cup {[id |-> NextId(rs), user_id |-> user_id, source_url |-> source_url,
              title |-> Get(ex, "title"),
              image_url |-> Get(ex, "image"),
              ingredients_json |->
                  json_dumps(unique_preserve_order(GetList(ex, "ingredients"))),
              steps_json |-> json_dumps(unique_preserve_order(GetList(ex, "steps"))),
              links_json |-> json_dumps(unique_preserve_order(GetList(ex, "links"))),
              raw_payload_json |-> json_dumps(ex),
              created_at |-> now, updated_at |-> now]}

(* _save_recipe, lines 238-269: INSERT ... ON CONFLICT(user_id,            *)
(* source_url) DO UPDATE                                                   *)
UpsertRecipe(rs, user_id, source_url, ex, now) ==
    LET Key(r) == r.user_id = user_id /\ r.source_url = source_url
        Row(id, created) ==
            [id |-> id, user_id |-> user_id, source_url |-> source_url,
             title |-> Get(ex, "title"),
             image_url |-> Get(ex, "image"),
             ingredients_json |->
                 json_dumps(unique_preserve_order(GetList(ex, "ingredients"))),
             steps_json |-> json_dumps(unique_preserve_order(GetList(ex, "steps"))),
             links_json |-> json_dumps(unique_preserve_order(GetList(ex, "links"))),
             raw_payload_json |-> json_dumps(ex),
             created_at |-> created, updated_at |-> now]
    IN  IF \E r \in rs : Key(r)
        THEN {IF Key(r) THEN Row(r.id, r.created_at) ELSE r : r \in rs}
        ELSE rs \cup {Row(NextId(rs), now)}

(* _save_recipe, lines 277-283: the tags of the recipe are replaced *)
ReplaceTags(ts, recipe_id, tags) ==
    LET normalized == normalize_tags(tags)
    IN  {t \in ts : t.recipe_id # recipe_id}
          \cup {[recipe_id |-> recipe_id, tag |-> normalized[k]] :
                   k \in 1..Len(normalized)}

(* GROUP_CONCAT(rt.tag): the tags of the recipe joined by ',' in an order  *)
(* SQLite does not specify; every order is a possible value.               *)
TagsCsvs(ts, recipe_id) ==
    LET S == {t.tag : t \in {x \in ts : x.recipe_id = recipe_id}}
        n == Cardinality(S)
        orders == {f \in [1..n -> S] : \A i, j \in 1..n : f[i] = f[j] => i = j}
    IN  {Join(f, <<",">>) : f \in orders}

(* _serialize_recipe_row, lines 135-153 *)
serialize_recipe_row(row, username, tags_csv) ==
    [id |-> row.id,
     user |-> username,
     source_url |-> row.source_url,
     title |-> row.title,
     image |-> row.image_url,
     ingredients |-> parse_json(row.ingredients_json),
     steps |-> parse_json(row.steps_json),
     links |-> parse_json(row.links_json),
     tags |-> IF tags_csv = <<>> THEN <<>> ELSE NonEmpty(SplitOn(tags_csv, ",")),
     created_at |-> row.created_at,
     updated_at |-> row.updated_at,
     raw_payload |-> parse_json(row.raw_payload_json)]

(* _fetch_recipe_by_id, lines 156-182: the records the query may return    *)
(* for the id (none when there is no such row).                            *)
fetch_recipe_by_id(us, rs, ts, recipe_id) ==
    {serialize_recipe_row(r, u.username, csv) :
        <<r, u, csv>> \in {x \in rs \X us \X TagsCsvs(ts, recipe_id) :
                              x[1].id = recipe_id /\ x[2].id = x[1].user_id}}

(* _save_recipe, lines 232-287: the database after the call and the id of  *)
(* the row saved.                                                          *)
save_recipe(us, rs, ts, username, source_url, ex, tags, now) ==
    LET SavedTags(u, rs2, rid) ==
            [users |-> u.users, recipes |-> rs2,
             recipe_tags |-> ReplaceTags(ts, rid, tags),
             recipe_id |-> rid, user |-> u.username]
        Saved(u, rs2) ==
            SavedTags(u, rs2,
                (CHOOSE r \in rs2 : r.user_id = u.id /\ r.source_url = source_url).id)
        SavedBy(u) == Saved(u, UpsertRecipe(rs, u.id, source_url, ex, now))
    IN  SavedBy(get_or_create_user(us, username))

-----------------------------------------------------------------------------
(* Texts, attribute values and URLs the bounded inputs are built from. *)
t_Mix == <<"M","i","x">>
t_mix == <<" ","m","i","x"," ">>
t_Bake == <<"B","a","k","e">>
t_Nice == <<"N","i","c","e">>
t_blank == <<" ">>
t_egg == <<"1"," ","e","g","g">>
t_EGG == <<"1"," "," ","E","G","G"," ">>
t_Tortillas == <<"2"," ","T","o","r","t","i","l","l","a","s">>
t_Tortilla == <<"1"," ","T","o","r","t","i","l","l","a"," ">>
t_Instructions == <<"I","n","s","t","r","u","c","t","i","o","n","s">>
t_Comments == <<"C","o","m","m","e","n","t","s">>
t_Tacos == <<"T","a","c","o","s">>
t_Site == <<" ","S","i","t","e">>
t_MixBake == <<"M","i","x","\n"," ","B","a","k","e">>
t_ab == <<"a"," ","b">>
c_ingredients == <<"i","n","g","r","e","d","i","e","n","t","s">>
c_ingredient_list == <<"i","n","g","r","e","d","i","e","n","t","-","l","i","s","t">>
c_ingredients_comments == <<"i","n","g","r","e","d","i","e","n","t","s"," ","c","o","m","m","e","n","t","s">>
c_review_ingredients == <<"r","e","v","i","e","w","-","i","n","g","r","e","d","i","e","n","t","s">>
c_steps == <<"S","t","e","p","s">>
c_steps_comments == <<"s","t","e","p","s"," ","c","o","m","m","e","n","t","s">>
c_comments == <<"c","o","m","m","e","n","t","s">>
u_page == <<"h","t","t","p",":","/","/","a","/","P","a","g","e">>
u_pageLower == <<"h","t","t","p",":","/","/","a","/","p","a","g","e">>
u_other == <<"h","t","t","p",":","/","/","b">>
u_relative == <<"/","a","b","o","u","t">>
u_png == <<"x",".","p","n","g">>
u_meta == <<"m",".","p","n","g">>
u_dataUri == <<"d","a","t","a",":","x">>
a_Logo == <<"S","i","t","e"," ","L","o","g","o">>
url1 == <<"h","t","t","p",":","/","/","r","/","1">>
url2 == <<"h","t","t","p",":","/","/","r","/","2">>
user_bob == <<" ","B","o","b">>
tag_dinner == <<"D","i","n","n","e","r">>
tag_quick == <<"q","u","i","c","k">>
tag_comma == <<"s","o","u","p",",","s","t","e","w">>

-----------------------------------------------------------------------------
(* Documents. *)
El(name, attrs, parent, text) ==
    [name |-> name, attrs |-> attrs, parent |-> parent, text |-> text]

Class(c) == <<<<"class", c>>>>
Id(i) == <<<<"id", i>>>>

Doc(scripts, nodes) == [kind |-> "html", scripts |-> scripts, nodes |-> nodes]

(* Top-level subtrees, each with parents relative to its first element,    *)
(* laid one after the other in document order.                             *)
RECURSIVE Assemble(_, _)
Assemble(blocks, offset) ==
    IF blocks = <<>> THEN <<>>
    ELSE LET b == Head(blocks)
         IN  [k \in 1..Len(b) |->
                 [b[k] EXCEPT !.parent = IF @ = 0 THEN 0 ELSE @ + offset]]
             \o Assemble(Tail(blocks), offset + Len(b))

(* Bounds of the document families. *)
MaxSiblings == 3
MaxAnchors == 2
MaxScripts == 2

(* Containers and lists: an outer element, an inner list, an item of the   *)
(* list, and a second item or a paragraph beside the list.                 *)
OuterAttrs ==
    {<<>>, Class(c_ingredients), Class(c_ingredients_comments),
     Id(c_review_ingredients), Class(c_steps), Class(c_steps_comments),
     Class(c_comments)}

InnerAttrs ==
    {<<>>, Class(c_ingredient_list), Class(c_ingredients_comments), Class(c_steps)}

ContainerDocs ==
    {Doc(<<>>, <<El(n1, a1, 0, <<>>), El(n2, a2, p2, <<>>),
                 El(s_li, <<>>, 2, t3),
                 El(n4, <<>>, IF n4 = s_li THEN 2 ELSE p2, t4)>>) :
        n1 \in {s_div, s_ul}, a1 \in OuterAttrs,
        n2 \in {s_ul, s_ol}, a2 \in InnerAttrs, p2 \in {0, 1},
        t3 \in {t_egg, t_EGG, t_Nice},
        n4 \in {s_li, s_p}, t4 \in {t_egg, t_Mix, t_blank}}

(* A heading followed by sibling subtrees. *)
StepBlocks ==
    {<<El(s_p, <<>>, 0, t_Mix)>>,
     <<El(s_p, <<>>, 0, t_mix)>>,
     <<El(s_ol, <<>>, 0, <<>>), El(s_li, <<>>, 1, t_Bake)>>,
     <<El(s_hr, <<>>, 0, <<>>)>>,
     <<El(s_h3, <<>>, 0, t_Comments)>>,
     <<El(s_div, <<>>, 0, <<>>), El(s_p, <<>>, 1, t_Nice)>>}

HeadingDocs ==
    {Doc(<<>>, Assemble(<<<<El(s_h2, <<>>, 0, h)>>>> \o bs, 0)) :
        h \in {t_Instructions, t_Comments},
        bs \in [1..MaxSiblings -> StepBlocks]}

(* JSON-LD scripts. *)
Recipe(name, ing, inst, img) ==
    [type |-> "Recipe", name |-> name, recipeIngredient |-> ing,
     recipeInstructions |-> inst, image |-> img]

OtherEntry(type) ==
    [type |-> type, name |-> JStr(t_Site), recipeIngredient |-> JAbsent,
     recipeInstructions |-> JAbsent, image |-> JAbsent]

Object(entry) == [kind |-> "object", entries |-> <<entry>>]
Array(entries) == [kind |-> "array", entries |-> entries]
Malformed == [kind |-> "malformed", entries |-> <<>>]

GoodRecipe ==
    Recipe(JStr(t_Tacos), JList(<<LStr(t_Tortillas), LStr(t_Tortilla)>>),
           JList(<<LStr(t_Mix), LStr(t_Bake)>>), JStr(u_png))

RecipeEntries ==
    {Recipe(name, ing, inst, img) :
        name \in {JAbsent, JStr(t_Tacos)},
        ing \in {JAbsent, JList(<<LStr(t_blank)>>),
                 JList(<<LStr(t_egg), LStr(t_EGG)>>),
                 JList(<<LStr(t_egg), LNum>>), JStr(t_ab)},
        inst \in {JAbsent, JList(<<LStr(t_Mix), LDict(t_mix), LNum>>),
                  JList(<<LStr(t_blank)>>), JStr(t_MixBake)},
        img \in {JAbsent, JStr(u_png), JList(<<LStr(<<>>)>>), JDict(u_png)}}

FirstScripts ==
    {Object(e) : e \in RecipeEntries}
      \cup {Malformed, Object(OtherEntry("WebSite")), Object(OtherEntry("scalar")),
            Array(<<OtherEntry("WebSite"), GoodRecipe>>)}

LaterScripts ==
    {Malformed, Object(GoodRecipe),
     Object(Recipe(JAbsent, JAbsent, JStr(t_MixBake), JAbsent))}

ScriptSeqs ==
    {<<>>} \cup
    UNION {{<<f>> \o rest : f \in FirstScripts, rest \in [1..k -> LaterScripts]} :
              k \in 0..(MaxScripts - 1)}

RecipeDom ==
    <<El(s_div, Class(c_ingredients), 0, <<>>), El(s_li, <<>>, 1, t_egg),
      El(s_ol, <<>>, 0, <<>>), El(s_li, <<>>, 3, t_Bake),
      El(s_img, <<<<"src", u_png>>>>, 0, <<>>)>>

StructuredDocs ==
    {Doc(ss, nodes) : ss \in ScriptSeqs, nodes \in {<<>>, RecipeDom}}

(* Titles: an h1 and a title element, with or without a structured name. *)
TitleDocs ==
    {Doc(ss, Assemble(hs \o ts, 0)) :
        ss \in {<<>>, <<Object(Recipe(JStr(t_Tacos), JAbsent, JAbsent, JAbsent))>>,
                <<Object(Recipe(JStr(<<>>), JAbsent, JAbsent, JAbsent))>>},
        hs \in {<<>>, <<<<El(s_h1, <<>>, 0, <<>>)>>>>, <<<<El(s_h1, <<>>, 0, t_blank)>>>>,
                <<<<El(s_h1, <<>>, 0, t_Tacos)>>>>},
        ts \in {<<>>, <<<<El(s_title, <<>>, 0, <<>>)>>>>,
                <<<<El(s_title, <<>>, 0, t_Site)>>>>}}

(* Anchors, images and og:image meta elements. *)
Anchors ==
    {El(s_a, <<<<"href", h>>>>, 0, <<>>) : h \in {u_page, u_pageLower, u_other, u_relative}}

Images ==
    {<<>>,
     <<El(s_img, <<<<"src", <<>>>>>>, 0, <<>>)>>,
     <<El(s_img, <<<<"src", u_dataUri>>>>, 0, <<>>), El(s_img, <<<<"src", u_png>>>>, 0, <<>>)>>,
     <<El(s_img, <<<<"src", u_png>>, <<"alt", a_Logo>>>>, 0, <<>>)>>,
     <<El(s_img, <<<<"src", u_png>>>>, 0, <<>>)>>}

Metas ==
    {<<>>,
     <<El(s_meta, <<<<"property", s_og_image>>, <<"content", u_meta>>>>, 0, <<>>)>>,
     <<El(s_meta, <<<<"property", s_og_image>>>>, 0, <<>>)>>,
     <<El(s_meta, <<<<"name", s_og_image>>, <<"content", u_meta>>>>, 0, <<>>)>>}

LinkDocs ==
    {Doc(<<>>, ms \o as \o is) :
        ms \in Metas, is \in Images,
        as \in UNION {[1..k -> Anchors] : k \in 0..MaxAnchors}}

(* The scenarios of the documentation: a JSON-LD recipe, a marked          *)
(* ingredient container, a heading followed by a list.                     *)
ScenarioA == Doc(<<Object(GoodRecipe)>>, <<>>)

ScenarioB ==
    Doc(<<>>, <<El(s_div, Class(c_ingredient_list), 0, <<>>), El(s_ul, <<>>, 1, <<>>),
                El(s_li, <<>>, 2, t_egg), El(s_li, <<>>, 2, t_EGG),
                El(s_a, <<<<"href", u_page>>>>, 0, <<>>),
                El(s_a, <<<<"href", u_pageLower>>>>, 0, <<>>)>>)

(* The documents the network serves. *)
Pages(c) ==
    IF c = "survey"
    THEN ContainerDocs \cup HeadingDocs \cup StructuredDocs \cup TitleDocs \cup LinkDocs
    ELSE {ScenarioA, ScenarioB}

(* requests.get / raise_for_status failures, lines 297-298 *)
FetchErrors == {"timeout", "transport", "status"}

NoPage == [kind |-> "none", scripts |-> <<>>, nodes |-> <<>>]
FailedPage(err) == [kind |-> err, scripts |-> <<>>, nodes |-> <<>>]

(* Request bodies of POST /extract: [kind, url, user, tags]; kind          *)
(* "invalid" when _read_json_body raises; url and user <<>> when the key   *)
(* is missing or empty.                                                    *)
Body(url, user, tags) == [kind |-> "json", url |-> url, user |-> user, tags |-> tags]

InvalidBody == [kind |-> "invalid", url |-> <<>>, user |-> <<>>, tags |-> JAbsent]

Bodies(b) ==
    IF b = "single"
    THEN {InvalidBody, Body(url1, <<>>, JList(<<LStr(tag_dinner)>>))}
    ELSE {InvalidBody, Body(<<>>, <<>>, JAbsent)}
         \cup {Body(u, n, t) : u \in {url1, url2}, n \in {<<>>, user_bob},
                  t \in {JList(<<>>), JList(<<LStr(tag_dinner), LStr(tag_quick)>>)}}
         \cup {Body(url1, <<>>, JList(<<LStr(tag_comma)>>))}

-----------------------------------------------------------------------------
(* Bounds of the normaliser inputs: the characters of the argument list,   *)
(* one more per item.                                                      *)
MaxInput == 8

(* Characters the bounded inputs are drawn from: two letters that differ   *)
(* only in case, and a whitespace character; "|" ends an item.             *)
Alphabet == {"a", "A", " "}

SeqsUpTo(S, n) == UNION {[1..k -> S] : k \in 0..n}

ItemsOf(flat) ==
    LET parts == SplitOn(flat, "|")
    IN  IF flat # <<>> /\ flat[Len(flat)] = "|" THEN SubSeq(parts, 1, Len(parts) - 1)
        ELSE IF flat = <<>> THEN <<>> ELSE parts

Idle ==
    /\ users = {} /\ recipes = {} /\ recipe_tags = {} /\ clock = 0
    /\ page = NoPage /\ extracted = None
    /\ response = [status |-> 0, error |-> "", recipe |-> None]

InitNorm ==
    /\ \E flat \in SeqsUpTo(Alphabet \cup {"|"}, MaxInput) : items = ItemsOf(flat)
    /\ unique = <<>>
    /\ called = FALSE
    /\ Idle
    /\ budget = 0 /\ corpus = "none" /\ bodies = "none"

(* A call of _unique_preserve_order on the drawn list. *)
CallUnique ==
    /\ ~called
    /\ unique' = unique_preserve_order(items)
    /\ called' = TRUE
    /\ UNCHANGED <<items, dbVars, page, extracted, response, budget, envVars>>

NextNorm == CallUnique

SpecNorm == InitNorm /\ [][NextNorm]_vars

-----------------------------------------------------------------------------
(* The HTTP handlers. *)
MaxPosts == 2

Reply(status, error, recipe) == [status |-> status, error |-> error, recipe |-> recipe]

(* do_POST, lines 560-564: a path other than /extract *)
PostNotFound ==
    /\ budget > 0
    /\ budget' = budget - 1
    /\ response' = Reply(404, "Not found", None)
    /\ page' = NoPage /\ extracted' = None
    /\ UNCHANGED <<normVars, dbVars, envVars>>

(* do_POST, lines 566-576: the body is no JSON object or has no url *)
PostBadBody ==
    /\ budget > 0
    /\ \E body \in Bodies(bodies) : body.kind = "invalid" \/ body.url = <<>>
    /\ budget' = budget - 1
    /\ response' = Reply(400, "Invalid request body", None)
    /\ page' = NoPage /\ extracted' = None
    /\ UNCHANGED <<normVars, dbVars, envVars>>

(* The handler saving an empty extraction when the fetch fails. *)
PostFetchFailedSaved ==
    /\ budget > 0
    /\ \E body \in Bodies(bodies), err \in FetchErrors :
          /\ body.kind = "json" /\ body.url # <<>>
          /\ page' = FailedPage(err)
          /\ \E db \in {save_recipe(users, recipes, recipe_tags, body.user,
                                    body.url, EmptyDict, body.tags, clock + 1)} :
                 /\ users' = db.users
                 /\ recipes' = db.recipes
                 /\ recipe_tags' = db.recipe_tags
                 /\ clock' = clock + 1
    /\ budget' = budget - 1
    /\ extracted' = None
    /\ response' = Reply(500, "Extraction failed", None)
    /\ UNCHANGED <<normVars, envVars>>

(* do_POST, lines 578-588, when extract_recipe raises at lines 297-298:    *)
(* the fetch times out, the transport fails or the status is not 2xx.      *)
PostFetchFailed ==
    /\ budget > 0
    /\ \E body \in Bodies(bodies), err \in FetchErrors :
          /\ body.kind = "json" /\ body.url # <<>>
          /\ page' = FailedPage(err)
    /\ budget' = budget - 1
    /\ extracted' = None
    /\ response' = Reply(500, "Extraction failed", None)
    /\ UNCHANGED <<normVars, dbVars, envVars>>

(* do_POST, lines 578-585: the page is fetched, extracted and saved *)
PostSaved ==
    /\ budget > 0
    /\ \E body \in Bodies(bodies), doc \in Pages(corpus) :
          /\ body.kind = "json" /\ body.url # <<>>
          /\ \E ex \in {extract_recipe(doc)} :
             \E db \in {save_recipe(users, recipes, recipe_tags, body.user,
                                    body.url, ex, body.tags, clock + 1)} :
                 /\ page' = doc
                 /\ extracted' = Some(ex)
                 /\ users' = db.users
                 /\ recipes' = db.recipes
                 /\ recipe_tags' = db.recipe_tags
                 /\ clock' = clock + 1
                 /\ \E rec \in fetch_recipe_by_id(db.users, db.recipes,
                                                  db.recipe_tags, db.recipe_id) :
                       response' = Reply(200, "", Some([rec EXCEPT !.user = db.user]))
    /\ budget' = budget - 1
    /\ UNCHANGED <<normVars, envVars>>

(* do_GET, lines 531-554: GET /recipes/<id> *)
GetRecipe ==
    /\ \E id \in 1..NextId(recipes) :
          LET found == fetch_recipe_by_id(users, recipes, recipe_tags, id)
          IN  IF found = {}
              THEN response' = Reply(404, "Recipe not found", None)
              ELSE \E rec \in found : response' = Reply(200, "", Some(rec))
    /\ UNCHANGED <<normVars, dbVars, page, extracted, budget, envVars>>

Next ==
    \/ PostNotFound
    \/ PostBadBody
    \/ PostFetchFailed
    \/ PostSaved
    \/ GetRecipe

InitServer ==
    /\ items = <<>> /\ unique = <<>> /\ called = FALSE
    /\ Idle
    /\ budget = MaxPosts /\ corpus = "site" /\ bodies = "several"

(* The service: clients post the documented scenarios repeatedly. *)
Spec == InitServer /\ [][Next]_vars

InitExtract ==
    /\ items = <<>> /\ unique = <<>> /\ called = FALSE
    /\ Idle
    /\ budget = 1 /\ corpus = "survey" /\ bodies = "single"

(* One POST /extract over the surveyed documents. *)
SpecExtract == InitExtract /\ [][Next]_vars

-----------------------------------------------------------------------------
(* Properties. *)

(* The last POST /extract fetched a page and extract_recipe returned. *)
Extracted == page.kind = "html" /\ extracted # None

result == extracted[1]

(* The list under key k of the result, <<>> when the key is absent. *)
Field(k) == GetList(result, k)

(* The non-whitespace characters of s, and the places between two of them  *)
(* where s has whitespace.                                                 *)
LetterIdx(s) == Ascending({i \in 1..Len(s) : s[i] \notin Whitespace})
Letters(s) == [k \in 1..Len(LetterIdx(s)) |-> s[LetterIdx(s)[k]]]
Gaps(s) == {k \in 1..(Len(LetterIdx(s)) - 1) : LetterIdx(s)[k + 1] > LetterIdx(s)[k] + 1}

(* t is s trimmed, with each whitespace run collapsed to one space. *)
IsCollapsedOf(t, s) ==
    /\ Letters(t) = Letters(s)
    /\ Gaps(t) = Gaps(s)
    /\ Len(t) = Len(Letters(s)) + Cardinality(Gaps(s))
    /\ \A i \in 1..Len(t) : t[i] \in Whitespace => t[i] = " "

(* s and t have the same trimmed, whitespace-collapsed, lowercased key. *)
SameKey(s, t) ==
    /\ Len(Letters(s)) = Len(Letters(t))
    /\ \A k \in 1..Len(Letters(s)) : LowerChar(Letters(s)[k]) = LowerChar(Letters(t)[k])
    /\ Gaps(s) = Gaps(t)

EmptyKey(s) == Letters(s) = <<>>

NoDuplicateKeys(l) ==
    \A i, j \in 1..Len(l) : i < j => ~SameKey(l[i], l[j])

(* C4: _unique_preserve_order returns, in order, the trimmed and           *)
(* whitespace-collapsed text (case unchanged) of the first occurrence of   *)
(* each distinct non-empty lowercase key; nothing else, nothing re-sorted. *)
C4_FirstOccurrences ==
    called =>
        LET first == Ascending({i \in 1..Len(items) :
                        /\ ~EmptyKey(items[i])
                        /\ \A j \in 1..(i - 1) : ~SameKey(items[j], items[i])})
        IN  /\ Len(unique) = Len(first)
            /\ \A k \in 1..Len(first) : IsCollapsedOf(unique[k], items[first[k]])

(* A call where a later item repeats the key of the first in another case, *)
(* and the first has a whitespace run to collapse.                         *)
C4_Witness ==
    /\ called
    /\ Len(items) = 2
    /\ items[1] # items[2]
    /\ SameKey(items[1], items[2])
    /\ Gaps(items[1]) # {}
    /\ Len(items[1]) > Len(Letters(items[1])) + 1
    /\ unique # <<>>

(* C3: no list field of the result of extract_recipe, and no list stored   *)
(* by _save_recipe, holds two entries with equal trimmed,                  *)
(* whitespace-collapsed, lowercased keys.                                  *)
C3_NoDuplicateKeys ==
    /\ Extracted =>
          /\ NoDuplicateKeys(Field("ingredients"))
          /\ NoDuplicateKeys(Field("steps"))
          /\ NoDuplicateKeys(Field("links"))
    /\ \A r \in recipes :
          /\ NoDuplicateKeys(parse_json(r.ingredients_json))
          /\ NoDuplicateKeys(parse_json(r.steps_json))
          /\ NoDuplicateKeys(parse_json(r.links_json))

(* A page whose step heuristics collect two texts with the same key, and   *)
(* whose extracted and stored steps keep one entry for them.               *)
C3_Witness ==
    /\ Extracted
    /\ ~NoDuplicateKeys(DomSteps(page.nodes))
    /\ "steps" \in DOMAIN result
    /\ Len(result["steps"]) < Len(DomSteps(page.nodes))
    /\ \E r \in recipes : parse_json(r.steps_json) = result["steps"]

(* C10: a POST /extract whose page fetch fails answers with an error,      *)
(* produces no extraction result and leaves the users, recipes and         *)
(* recipe_tags tables as they were.                                        *)
C10_FetchFailureLeavesStore ==
    [][(budget' < budget /\ page'.kind \in FetchErrors) =>
          /\ response'.status = 500
          /\ response'.recipe = None
          /\ extracted' = None
          /\ users' = users /\ recipes' = recipes /\ recipe_tags' = recipe_tags]_vars

(* A failed fetch answered with an error while the store holds a recipe    *)
(* saved by an earlier request.                                            *)
C10_Witness ==
    /\ page.kind \in FetchErrors
    /\ response.status = 500
    /\ recipes # {}
    /\ budget = 0

(* The first Recipe entry of each decodable script that has one: the       *)
(* entries the structured-data pass can select.                            *)
SelectedRecipes(doc) ==
    LET withRecipe == SelectSeq(doc.scripts, LAMBDA sc :
                         /\ sc.kind # "malformed"
                         /\ \E k \in 1..Len(Entries(sc)) : Entries(sc)[k].type = "Recipe")
    IN  [n \in 1..Len(withRecipe) |->
            LET es == Entries(withRecipe[n])
            IN  es[CHOOSE k \in 1..Len(es) :
                      /\ es[k].type = "Recipe"
                      /\ \A j \in 1..(k - 1) : es[j].type # "Recipe"]]

(* x is the trimmed, collapsed text of a string line of recipeIngredient   *)
(* of one of the entries.                                                  *)
IsDeclaredLine(x, entries) ==
    \E n \in 1..Len(entries) :
        LET its == IngredientItems(entries[n].recipeIngredient)
        IN  \E k \in 1..Len(its) : its[k].t = "str" /\ IsCollapsedOf(x, its[k].s)

(* C1, as claimed: when the selected Recipe entry declares                 *)
(* recipeIngredient, the DOM heuristics contribute nothing: every          *)
(* ingredient of the result is a line of the structured data.              *)
C1_DeclaredIngredientsExcludeDom ==
    Extracted =>
        LET sel == SelectedRecipes(page)
        IN  (sel # <<>> /\ sel[1].recipeIngredient.t # "absent") =>
                \A k \in 1..Len(Field("ingredients")) :
                    IsDeclaredLine(Field("ingredients")[k], sel)

(* C1, amended: when the structured-data pass leaves at least one          *)
(* ingredient in the result, the DOM heuristics do not run: the            *)
(* ingredients of the result are that structured list, each the text of a  *)
(* declared line, whatever ingredient-marked containers the page has.      *)
C1_StructuredIngredientsExcludeDom ==
    Extracted =>
        (Truthy(StructuredData(page), "ingredients") =>
            /\ "ingredients" \in DOMAIN result
            /\ result["ingredients"] = StructuredData(page)["ingredients"]
            /\ \A k \in 1..Len(result["ingredients"]) :
                  IsDeclaredLine(result["ingredients"][k], SelectedRecipes(page)))

(* Structured ingredients on a page whose ingredient-marked container      *)
(* would yield other ingredients.                                          *)
C1_Witness ==
    /\ Extracted
    /\ Truthy(StructuredData(page), "ingredients")
    /\ DomIngredients(page.nodes) # <<>>
    /\ \E k \in 1..Len(DomIngredients(page.nodes)) :
          ~IsDeclaredLine(DomIngredients(page.nodes)[k], SelectedRecipes(page))
    /\ "ingredients" \in DOMAIN result

(* The element carries a noise token in its class or its id. *)
NoiseTagged(n) == AnyIn(NoiseWords, Classes(n)) \/ AnyIn(NoiseWords, Cid(n))

StepMarked(n) ==
    AnyIn(StepClassWords, Classes(n)) \/ AnyIn(StepClassWords, Cid(n))

(* C2: a noise-tagged element contributes no li/p text, through the        *)
(* marked-container scan, the ul/ol fallback or the class/id step scan.    *)
(* So on a page without structured data where every ingredient-marked      *)
(* element is noise-tagged the ingredient chain finds nothing, and where   *)
(* every step-marked element is noise-tagged (and no heading or ol offers  *)
(* another strategy) the step chain finds nothing.                         *)
C2_NoiseTaggedExcluded ==
    (Extracted /\ page.scripts = <<>>) =>
        LET nodes == page.nodes
        IN  /\ (\A i \in 1..Len(nodes) :
                    IngredientMarked(nodes[i]) => NoiseTagged(nodes[i]))
                  => "ingredients" \notin DOMAIN result
            /\ (/\ \A i \in 1..Len(nodes) : StepMarked(nodes[i]) => NoiseTagged(nodes[i])
                /\ FindAll(nodes, HeadingNames \cup {s_ol}) = <<>>)
                  => "steps" \notin DOMAIN result

(* The first occurrence of each distinct string, in order. *)
ExactDedup(l) ==
    LET first == Ascending({i \in 1..Len(l) : \A j \in 1..(i - 1) : l[j] # l[i]})
    IN  [k \in 1..Len(first) |-> l[first[k]]]

(* C5: links is the document-order list of the anchor hrefs starting with  *)
(* "http", deduplicated by exact string equality: hrefs that differ only   *)
(* in letter case are both kept.                                           *)
C5_LinksExactDedup ==
    Extracted => Field("links") = ExactDedup(Hrefs(page.nodes))

(* C6: the title is the first non-empty value among the structured-data    *)
(* name, the text of the first h1 and the text of the title element; it is *)
(* absent when none is non-empty.                                          *)
C6_TitleFirstNonEmpty ==
    Extracted =>
        LET nodes == page.nodes
            sd == StructuredData(page)
            TextOfFirst(name) ==
                IF FindAll(nodes, {name}) = <<>> THEN <<>>
                ELSE GetText(nodes, FindAll(nodes, {name})[1], <<>>)
            candidates == <<IF "title" \in DOMAIN sd THEN sd["title"] ELSE <<>>,
                            TextOfFirst(s_h1), TextOfFirst(s_title)>>
        IN  IF FirstNonEmpty(candidates) = <<>>
            THEN "title" \notin DOMAIN result
            ELSE Get(result, "title") = Some(FirstNonEmpty(candidates))

(* The steps of the siblings that follow heading h, up to the next h1-h6   *)
(* sibling or the last sibling.                                            *)
WalkToNextHeading(nodes, h) ==
    LET sibs == NextSiblings(nodes, h)
        stops == {k \in 1..Len(sibs) : nodes[sibs[k]].name \in HeadingNames}
        last == IF stops = {} THEN Len(sibs)
                ELSE (CHOOSE k \in stops : \A j \in stops : k <= j) - 1
    IN  Concat([k \in 1..last |-> SiblingSteps(nodes, sibs[k])])

(* C7: the walk after a matching heading ends only at the next heading     *)
(* element (h1 to h6) or at the last sibling; every sibling before that    *)
(* heading contributes its step text in document order.                    *)
C7_WalkEndsAtNextHeading ==
    (Extracted /\ page.scripts = <<>>) =>
        LET nodes == page.nodes
            hs == MatchingHeadings(nodes)
            steps == FirstNonEmpty([k \in 1..Len(hs) |-> WalkToNextHeading(nodes, hs[k])])
        IN  steps # <<>> => Field("steps") = unique_preserve_order(steps)

(* The script fails: it does not decode, or its Recipe entry has a         *)
(* recipeIngredient of an unexpected shape.                                *)
ScriptFails(sc) ==
    \/ sc.kind = "malformed"
    \/ LET sel == SelectedRecipes([scripts |-> <<sc>>])
       IN  /\ sel # <<>>
           /\ JTruthy(sel[1].recipeIngredient)
           /\ IngredientRaises(sel[1].recipeIngredient)

(* C8: a script that fails is skipped on its own and never aborts the      *)
(* scan: the ingredients and steps are those of the page without its       *)
(* failing scripts, so a later well-formed Recipe still populates them.    *)
C8_FailedScriptSkipped ==
    Extracted =>
        LET without == [page EXCEPT !.scripts =
                           SelectSeq(@, LAMBDA sc : ~ScriptFails(sc))]
        IN  /\ Get(result, "ingredients") = Get(extract_recipe(without), "ingredients")
            /\ Get(result, "steps") = Get(extract_recipe(without), "steps")

(* C9: a key of the result is present only with a non-empty value: a       *)
(* non-empty string, or a list with at least one non-empty entry.          *)
C9_PresentFieldsNonEmpty ==
    Extracted =>
        \A k \in DOMAIN result :
            /\ result[k] # <<>>
            /\ k \in {"ingredients", "steps", "links"} =>
                  \E i \in 1..Len(result[k]) : result[k][i] # <<>>

-----------------------------------------------------------------------------
(* The recipe rows of the user named username for source_url. *)
RowsOf(us, rs, username, source_url) ==
    {r \in rs : /\ r.source_url = source_url
                /\ \E u \in us : u.id = r.user_id /\ u.username = username}

(* A row, a set of rows, a returned record without the timestamp of the    *)
(* last update.                                                            *)
Settled(r) == [r EXCEPT !.updated_at = 0]

SettledRows(rs) == {Settled(r) : r \in rs}

(* The bodies and pages a POST /extract can save. *)
SavableBodies == {b \in Bodies(bodies) : b.kind = "json" /\ b.url # <<>>}

(* Saving again what once saved, on the database once left: the same      *)
(* users, id, rows (but for updated_at), tags and returned records.        *)
SameAsOnce(once, username, source_url, ex, tags, now) ==
    \E twice \in {save_recipe(once.users, once.recipes, once.recipe_tags,
                              username, source_url, ex, tags, now)} :
        /\ twice.users = once.users
        /\ twice.recipe_id = once.recipe_id
        /\ twice.user = once.user
        /\ SettledRows(twice.recipes) = SettledRows(once.recipes)
        /\ twice.recipe_tags = once.recipe_tags
        /\ SettledRows(fetch_recipe_by_id(twice.users, twice.recipes,
                                          twice.recipe_tags, twice.recipe_id))
             = SettledRows(fetch_recipe_by_id(once.users, once.recipes,
                                              once.recipe_tags, once.recipe_id))

RepeatedSaveIsIdempotent ==
    \A ex \in {extract_recipe(doc) : doc \in Pages(corpus)} :
    \A body \in SavableBodies :
        \E once \in {save_recipe(users, recipes, recipe_tags, body.user, body.url,
                                 ex, body.tags, clock + 1)} :
            SameAsOnce(once, body.user, body.url, ex, body.tags, clock + 2)

(* No two users share a name or an id, no two recipe rows share an id or   *)
(* a (user_id, source_url) pair, and every row belongs to a user.          *)
OneRowPerPair ==
    /\ \A u, v \in users : (u.username = v.username \/ u.id = v.id) => u = v
    /\ \A r, q \in recipes :
          (r.id = q.id \/ (r.user_id = q.user_id /\ r.source_url = q.source_url))
             => r = q
    /\ \A r \in recipes : \E u \in users : u.id = r.user_id

(* A step of POST /extract that saved: the returned record names the pair. *)
SaveStep == budget' < budget /\ response'.status = 200

(* The save leaves exactly one row for its pair, with the id returned; a   *)
(* row the pair already had is that row, id and created_at kept; a pair    *)
(* without a row gets one new row; the rows of other pairs are untouched.  *)
SaveUpserts ==
    SaveStep =>
        \E rec \in {response'.recipe[1]} :
        \E before \in {RowsOf(users, recipes, rec.user, rec.source_url)} :
        \E after \in {RowsOf(users', recipes', rec.user, rec.source_url)} :
            /\ Cardinality(after) = 1
            /\ \A r \in after : r.id = rec.id
            /\ recipes \ before = recipes' \ after
            /\ \A o \in before : \A r \in after :
                  r.id = o.id /\ r.created_at = o.created_at
            /\ before = {} => \A r \in after : \A q \in recipes : q.id # r.id

(* C11: _save_recipe is an idempotent upsert keyed by (user, source_url):  *)
(* after any sequence of saves there is one recipe row per saved pair, a   *)
(* save for an existing pair updates that row and keeps its id, and        *)
(* repeating a save with identical arguments leaves the same id, title,    *)
(* image, ingredients, steps, links and tags as saving once.               *)
C11_IdempotentUpsert ==
    /\ [](OneRowPerPair /\ RepeatedSaveIsIdempotent)
    /\ [][SaveUpserts]_vars

(* Two saves for the same pair left one row, updated after its creation.   *)
C11_Witness ==
    /\ budget = 0
    /\ response.status = 200
    /\ Cardinality(recipes) = 1
    /\ \E r \in recipes : r.updated_at > r.created_at /\ r.id = response.recipe[1].id

-----------------------------------------------------------------------------
Elems(seq) == {seq[i] : i \in 1..Len(seq)}

(* The tag rows stored for the recipe. *)
StoredTags(ts, recipe_id) == {t.tag : t \in {x \in ts : x.recipe_id = recipe_id}}

(* The step is the save of body for the page doc. *)
SavedWith(body, doc) ==
    /\ page' = doc
    /\ \E db \in {save_recipe(users, recipes, recipe_tags, body.user, body.url,
                              extract_recipe(doc), body.tags, clock + 1)} :
          /\ users' = db.users
          /\ recipes' = db.recipes
          /\ recipe_tags' = db.recipe_tags
          /\ response'.recipe[1].id = db.recipe_id

(* Each tag of the set is one entry of the list, unchanged, and the list   *)
(* has no other entry.                                                     *)
ListsExactly(list, tagset) ==
    Elems(list) = tagset /\ Len(list) = Cardinality(tagset)

(* A step of GET /recipes/<id> that found the recipe. *)
FetchStep == budget' = budget /\ response' # response /\ response'.status = 200

(* C12: the record returned by _save_recipe, and later by                  *)
(* _fetch_recipe_by_id, lists exactly the tags _normalize_tags gives for   *)
(* the most recent save of the recipe: each normalized tag is one          *)
(* unchanged entry, and tags of earlier saves are not kept.                *)
C12_ReturnedTagsAreNormalizedTags ==
    [][/\ SaveStep =>
            \A body \in SavableBodies, doc \in Pages(corpus) :
                SavedWith(body, doc) =>
                    /\ StoredTags(recipe_tags', response'.recipe[1].id)
                          = Elems(normalize_tags(body.tags))
                    /\ ListsExactly(response'.recipe[1].tags,
                                    Elems(normalize_tags(body.tags)))
       /\ FetchStep =>
            ListsExactly(response'.recipe[1].tags,
                         StoredTags(recipe_tags, response'.recipe[1].id))]_vars

====
